---- MODULE Spec2Model ----
(***************************************************************************)
(* Model of the OpenNeuro helper functions of precision-paths:             *)
(*   src/OpenerNeuro/OpenerNeuro.py  get_latest_snapshot,                  *)
(*       list_s3_json_files, list_s3_niigz_files, flatten_json,            *)
(*       jsons_to_dataframe                                                *)
(*   src/scripts/plotting_helper.py  parse_age                             *)
(*                                                                         *)
(* Python strings are sequences of one-character strings, so that          *)
(* concatenation, slicing, endswith, replace and comparison are computed   *)
(* character by character as the interpreter does.  A Python dict is an    *)
(* insertion-ordered sequence of key/value items where its order is read   *)
(* by the code, and a function from keys to values where it is not.        *)
(***************************************************************************)
EXTENDS Integers, Sequences, FiniteSets

VARIABLES
    y, out, fpc,                                   \* flatten_json
    resp, latest, spc,                              \* get_latest_snapshot
    pages, listed, lpc,                             \* list_s3_*_files
    json_urls, pos, records, fetched, df, apc,      \* jsons_to_dataframe
    age, parsed, gpc                                \* parse_age

vars == <<y, out, fpc, resp, latest, spc, pages, listed, lpc,
          json_urls, pos, records, fetched, df, apc, age, parsed, gpc>>

flattenVars == <<y, out, fpc>>
snapshotVars == <<resp, latest, spc>>
listingVars == <<pages, listed, lpc>>
aggregateVars == <<json_urls, pos, records, fetched, df, apc>>
ageVars == <<age, parsed, gpc>>

(***************************************************************************)
(* Bounds of the model.                                                    *)
(***************************************************************************)
\* nodes (containers and scalars) of a JSON document given to flatten_json
MaxNodes == 4
\* snapshots in a response of the metadata service
MaxSnaps == 3
\* pages of an object listing, and objects in all its pages together
MaxPages == 2
MaxObjs == 3
\* objects under the prefix of the dataset that jsons_to_dataframe aggregates
MaxFiles == 2
\* characters of a generated string given to parse_age
MaxLen == 5

(***************************************************************************)
(* Python str                                                              *)
(***************************************************************************)
Dot == <<".">>

\* s + t
Concat(s, t) == s \o t

\* s[:-1]  (the empty string stays empty)
DropLast(s) == IF Len(s) = 0 THEN <<>> ELSE SubSeq(s, 1, Len(s) - 1)

Digits == <<"0", "1", "2", "3", "4", "5", "6", "7", "8", "9">>

IsDigit(c) == \E d \in 1..10 : Digits[d] = c

DigitValue(c) == (CHOOSE d \in 1..10 : Digits[d] = c) - 1

\* str(i) of a natural number
RECURSIVE str(_)
str(i) == IF i < 10 THEN <<Digits[i + 1]>>
          ELSE str(i \div 10) \o <<Digits[(i % 10) + 1]>>

\* a variant of endswith that finds the suffix anywhere in s
endswith_anywhere(s, suffix) ==
    \E i \in 1..Len(s) : i + Len(suffix) - 1 <= Len(s)
                          /\ SubSeq(s, i, i + Len(suffix) - 1) = suffix

\* s.endswith(suffix)
endswith(s, suffix) ==
    /\ Len(suffix) <= Len(s)
    /\ SubSeq(s, Len(s) - Len(suffix) + 1, Len(s)) = suffix

(***************************************************************************)
(* JSON values: a node is a mapping ("dict": items carry key and value in  *)
(* insertion order, keys distinct), a sequence ("list": the keys of the    *)
(* items are unused) or a scalar leaf ("scalar": v is the leaf).           *)
(***************************************************************************)
Scalar(v) == [t |-> "scalar", v |-> v, items |-> <<>>]
Dict(items) == [t |-> "dict", v |-> 0, items |-> items]
List(items) == [t |-> "list", v |-> 0, items |-> items]
Item(k, val) == [k |-> k, val |-> val]

\* {"k1": v1} and so on, for writing documents down
Dict1(k1, v1) == Dict(<<Item(k1, v1)>>)
Dict2(k1, v1, k2, v2) == Dict(<<Item(k1, v1), Item(k2, v2)>>)

\* mapping keys and scalar leaves of the generated documents
DocKeys == {<<>>, <<"a">>, <<"b">>, <<"a", ".", "b">>}
DocScalars == {1, 2}

KeyTuples(m) == {ks \in [1..m -> DocKeys] : \A i, j \in 1..m : i # j => ks[i] # ks[j]}

\* the items of a mapping with keys ks and values f, and of a sequence of values f
RECURSIVE DictItems(_, _)
DictItems(ks, f) ==
    IF Len(f) = 0 THEN <<>> ELSE <<Item(ks[1], f[1])>> \o DictItems(Tail(ks), Tail(f))

ListItems(f) == [i \in 1..Len(f) |-> Item(<<>>, f[i])]

\* the sequences of m documents with k nodes in all, given by[j], the documents
\* with j nodes, for every j <= k
RECURSIVE ForestsOf(_, _, _)
ForestsOf(by, k, m) ==
    IF m = 0 THEN (IF k = 0 THEN {<<>>} ELSE {})
    ELSE UNION {{<<tr>> \o f : tr \in by[j], f \in ForestsOf(by, k - j, m - 1)}
                : j \in 1..k}

\* the documents with one node
LeafDocs == {Scalar(v) : v \in DocScalars} \cup {Dict(<<>>), List(<<>>)}

\* the documents with n nodes
TreesOf(by, n) ==
    IF n = 1 THEN LeafDocs
    ELSE UNION {
           {Dict(DictItems(ks, f)) : ks \in KeyTuples(m), f \in ForestsOf(by, n - 1, m)}
           \cup {List(ListItems(f)) : f \in ForestsOf(by, n - 1, m)}
           : m \in 1..(n - 1)}

\* <<documents with 1 node, ..., documents with n nodes>>
RECURSIVE TreesBySize(_)
TreesBySize(n) ==
    IF n = 0 THEN <<>>
    ELSE LET by == TreesBySize(n - 1) IN Append(by, TreesOf(by, n))

\* the documents that can stand below the root of a document of MaxNodes nodes
SubDocsBySize == TreesBySize(MaxNodes - 1)

\* d is a document of at most MaxNodes nodes
IsDoc(d) ==
    \/ d \in LeafDocs
    \/ \E n \in 2..MaxNodes : \E m \in 1..(n - 1) :
          \E f \in ForestsOf(SubDocsBySize, n - 1, m) :
             \/ \E ks \in KeyTuples(m) : d = Dict(DictItems(ks, f))
             \/ d = List(ListItems(f))

(***************************************************************************)
(* flatten_json (OpenerNeuro.py 80-109)                                    *)
(***************************************************************************)
\* a Python dict that is only looked up: d[key] = x
DictSet(d, key, x) == [k \in DOMAIN d \cup {key} |-> IF k = key THEN x ELSE d[k]]

EmptyDict == [k \in {} |-> 0]

\* variants of the helpers below, each changed as a slip in the code would change it
StoreLeaf_keepDot(o, name, x) == DictSet(o, name, x)
StoreLeaf_keepFirst(o, name, x) ==
    IF DropLast(name) \in DOMAIN o THEN o ELSE DictSet(o, DropLast(name), x)
ListChildName_noIndex(name, i) == Concat(name, Dot)

\* line 106: out[name[:-1]] = x
StoreLeaf(o, name, x) == DictSet(o, DropLast(name), x)

\* line 101: name + k + "."
DictChildName(name, k) == Concat(Concat(name, k), Dot)

\* line 104: name + str(i) + "."   (i counts from 0, as enumerate does)
ListChildName(name, i) == Concat(Concat(name, str(i)), Dot)

\* lines 98-106: _flatten(x, name), returning the accumulator `out` it leaves;
\* _flattenItems is the for loop of lines 100-101 and 103-104 from item i on
RECURSIVE _flatten(_, _, _), _flattenItems(_, _, _, _)
_flatten(x, name, o) ==
    IF x.t = "dict" \/ x.t = "list" THEN _flattenItems(x, 1, name, o)
    ELSE StoreLeaf(o, name, x.v)

_flattenItems(x, i, name, o) ==
    IF i > Len(x.items) THEN o
    ELSE LET child == IF x.t = "dict" THEN DictChildName(name, x.items[i].k)
                      ELSE ListChildName(name, i - 1)
         IN _flattenItems(x, i + 1, name, _flatten(x.items[i].val, child, o))

\* lines 95, 107, 109
flatten_json(x) == _flatten(x, <<>>, EmptyDict)

\* a call flatten_json(y) with y any document of at most MaxNodes nodes; the
\* other functions are not running
FlattenInit ==
    /\ IsDoc(y)
    /\ out = EmptyDict
    /\ fpc = "call"
    /\ resp = <<>> /\ latest = <<>> /\ spc = "idle"
    /\ pages = <<>> /\ listed = <<>> /\ lpc = "idle"
    /\ json_urls = <<>> /\ pos = 0 /\ records = <<>> /\ fetched = <<>>
    /\ df = <<>> /\ apc = "idle"
    /\ age = <<>> /\ parsed = <<>> /\ gpc = "idle"

FlattenCall ==
    /\ fpc = "call"
    /\ out' = flatten_json(y)
    /\ fpc' = "done"
    /\ UNCHANGED <<y, snapshotVars, listingVars, aggregateVars, ageVars>>

(***************************************************************************)
(* What the flattener is specified to compute: the scalar leaves in        *)
(* depth-first order (mapping items in key order, sequence items in index  *)
(* order), each with the path of mapping keys and stringified indices that *)
(* leads to it, and the dot-joined form of a path.                         *)
(***************************************************************************)
RECURSIVE Leaves(_, _), LeavesFrom(_, _, _)
Leaves(x, path) ==
    IF x.t = "scalar" THEN <<[path |-> path, val |-> x.v]>>
    ELSE LeavesFrom(x, 1, path)

LeavesFrom(x, i, path) ==
    IF i > Len(x.items) THEN <<>>
    ELSE LET seg == IF x.t = "dict" THEN x.items[i].k ELSE str(i - 1)
         IN Leaves(x.items[i].val, Append(path, seg)) \o LeavesFrom(x, i + 1, path)

RECURSIVE DotJoin(_)
DotJoin(path) ==
    IF Len(path) = 0 THEN <<>>
    ELSE IF Len(path) = 1 THEN path[1]
    ELSE path[1] \o Dot \o DotJoin(Tail(path))

\* every mapping key below x
RECURSIVE KeysIn(_)
KeysIn(x) ==
    UNION {(IF x.t = "dict" THEN {x.items[i].k} ELSE {}) \cup KeysIn(x.items[i].val)
           : i \in 1..Len(x.items)}

HasDot(s) == \E i \in 1..Len(s) : s[i] = "."

LeafSeq == Leaves(y, <<>>)

\* the leaves of y that land on key k, in the order they are visited
LeafIdx(k) == {i \in 1..Len(LeafSeq) : DotJoin(LeafSeq[i].path) = k}
Max(S) == CHOOSE m \in S : \A n \in S : n <= m

\* C1 as stated: the number of keys of flatten_json(y) equals the number of
\* scalar leaves a depth-first traversal of y reaches.
C1_KeyCountIsLeafCount ==
    fpc = "done" => Cardinality(DOMAIN out) = Len(LeafSeq)

\* C1 amended: the number of keys never exceeds the number of scalar leaves, and
\* equals it whenever no mapping key of the input contains a dot.
C1_KeyCountIsLeafCountWithoutDots ==
    fpc = "done" =>
        /\ Cardinality(DOMAIN out) <= Len(LeafSeq)
        /\ (\A k \in KeysIn(y) : ~HasDot(k)) => Cardinality(DOMAIN out) = Len(LeafSeq)

\* a dot-free document with leaves under a mapping and under a sequence was flattened
C1_Witness ==
    /\ fpc = "done"
    /\ \A k \in KeysIn(y) : ~HasDot(k)
    /\ Len(LeafSeq) >= 2
    /\ \E i \in 1..Len(LeafSeq) : Len(LeafSeq[i].path) >= 2
    /\ Cardinality(DOMAIN out) = Len(LeafSeq)

\* C2: the keys of flatten_json(y) are exactly the dot-joined paths of the scalar
\* leaves of y, the value under a key is a leaf at that path, an empty mapping or
\* sequence contributes no key, and flattening {} gives {}.
C2_KeysAreDotJoinedLeafPaths ==
    fpc = "done" =>
        /\ DOMAIN out = {DotJoin(LeafSeq[i].path) : i \in 1..Len(LeafSeq)}
        /\ \A k \in DOMAIN out : \E i \in LeafIdx(k) : out[k] = LeafSeq[i].val
        /\ (y = Dict(<<>>) => out = EmptyDict)

\* a document holding an empty container beside a nested leaf was flattened
C2_Witness ==
    /\ fpc = "done"
    /\ \E i \in 1..Len(y.items) : y.items[i].val \in {Dict(<<>>), List(<<>>)}
    /\ \E i \in 1..Len(LeafSeq) : Len(LeafSeq[i].path) >= 2
    /\ Cardinality(DOMAIN out) = Len(LeafSeq)

\* C10: flatten_json returns for every input, and where several leaves land on
\* one key the value kept is that of the leaf visited last.
C10_LaterLeafWins ==
    /\ fpc \in {"call", "done"}
    /\ fpc = "done" =>
         \A k \in DOMAIN out : out[k] = LeafSeq[Max(LeafIdx(k))].val

\* {"a.b": v, "a": {"b": w}} with v # w was flattened
C10_Witness ==
    /\ fpc = "done"
    /\ \E i, j \in 1..Len(LeafSeq) :
          /\ i < j
          /\ DotJoin(LeafSeq[i].path) = DotJoin(LeafSeq[j].path)
          /\ LeafSeq[i].val # LeafSeq[j].val
          /\ out[DotJoin(LeafSeq[j].path)] = LeafSeq[j].val

SpecFlatten == FlattenInit /\ [][FlattenCall]_vars

(***************************************************************************)
(* get_latest_snapshot (OpenerNeuro.py 17-52)                              *)
(***************************************************************************)
\* ord(c) for the characters of the tags
Ord(c) == CASE c = "." -> 46
            [] IsDigit(c) -> 48 + DigitValue(c)
            [] c = "v" -> 118

\* s < t for Python strings: code point by code point, a proper prefix first
StrLess(s, t) ==
    \E i \in 1..Len(t) :
        /\ \A j \in 1..(i - 1) : j <= Len(s) /\ s[j] = t[j]
        /\ (i > Len(s) \/ Ord(s[i]) < Ord(t[i]))

\* xs with x put before the first element that x is greater than / less than
RECURSIVE InsertDesc(_, _), InsertAsc(_, _)
InsertDesc(x, xs) ==
    IF Len(xs) = 0 THEN <<x>>
    ELSE IF StrLess(xs[1], x) THEN <<x>> \o xs
    ELSE <<xs[1]>> \o InsertDesc(x, Tail(xs))

InsertAsc(x, xs) ==
    IF Len(xs) = 0 THEN <<x>>
    ELSE IF StrLess(x, xs[1]) THEN <<x>> \o xs
    ELSE <<xs[1]>> \o InsertAsc(x, Tail(xs))

\* sorted(xs), a variant of the call of line 51 without reverse=True
RECURSIVE sorted_ascending(_)
sorted_ascending(xs) ==
    IF Len(xs) = 0 THEN <<>>
    ELSE InsertAsc(xs[Len(xs)], sorted_ascending(SubSeq(xs, 1, Len(xs) - 1)))

\* a variant of the test of line 49 that lets an empty list through
NoSnapshots_never(snaps) == FALSE

\* sorted(xs, reverse=True)
RECURSIVE sorted_reverse(_)
sorted_reverse(xs) ==
    IF Len(xs) = 0 THEN <<>>
    ELSE InsertDesc(xs[Len(xs)], sorted_reverse(SubSeq(xs, 1, Len(xs) - 1)))

\* a variant of raise_for_status that lets every status through
raise_for_status_never(status) == FALSE

\* line 47 (and 142, 203): raise_for_status raises for a 4xx or 5xx status
raise_for_status(status) == 400 <= status /\ status < 600

\* line 49: not snaps
NoSnapshots(snaps) == Len(snaps) = 0

\* what a call gives back: a returned value or a raised exception
Return(v) == [kind |-> "return", value |-> v, exc |-> ""]
Raise(e) == [kind |-> "raise", value |-> <<>>, exc |-> e]
NoResult == [kind |-> "none", value |-> <<>>, exc |-> ""]

\* lines 46-52 on the response r of the metadata service
get_latest_snapshot(r) ==
    IF r.conn = "error" THEN Raise("ConnectionError")
    ELSE IF raise_for_status(r.status) THEN Raise("HTTPError")
    ELSE IF r.dataset = "null" THEN Raise("TypeError")
    ELSE IF NoSnapshots(r.snaps) THEN Raise("Exception: No snapshots found.")
    ELSE LET tags == sorted_reverse([i \in 1..Len(r.snaps) |-> r.snaps[i].tag])
         IN IF Len(tags) = 0 THEN Raise("IndexError") ELSE Return(tags[1])

\* the tags the metadata service may hold
Tag100 == <<"1", ".", "0", ".", "0">>
Tag200 == <<"2", ".", "0", ".", "0">>
Tag150 == <<"1", ".", "5", ".", "0">>
TagV9 == <<"v", "9">>
TagV10 == <<"v", "1", "0">>
TagPool == {Tag100, Tag200, Tag150, TagV9, TagV10}

SeqsUpTo(S, n) == UNION {[1..k -> S] : k \in 0..n}

\* the responses of the metadata service: the request fails, or it answers with
\* a status and (when read) a body whose dataset is null or lists snapshots
Responses ==
    [conn : {"ok", "error"}, status : {200, 404, 503}, dataset : {"present", "null"},
     snaps : SeqsUpTo([tag : TagPool], MaxSnaps)]

SnapshotInit ==
    /\ resp \in Responses
    /\ latest = NoResult
    /\ spc = "call"
    /\ y = Scalar(0) /\ out = EmptyDict /\ fpc = "idle"
    /\ pages = <<>> /\ listed = <<>> /\ lpc = "idle"
    /\ json_urls = <<>> /\ pos = 0 /\ records = <<>> /\ fetched = <<>>
    /\ df = <<>> /\ apc = "idle"
    /\ age = <<>> /\ parsed = <<>> /\ gpc = "idle"

SnapshotCall ==
    /\ spc = "call"
    /\ latest' = get_latest_snapshot(resp)
    /\ spc' = "done"
    /\ UNCHANGED <<resp, flattenVars, listingVars, aggregateVars, ageVars>>

SpecSnapshot == SnapshotInit /\ [][SnapshotCall]_vars

\* the request completed with a success status and a body naming the dataset
Answered == resp.conn = "ok" /\ ~raise_for_status(resp.status) /\ resp.dataset = "present"

TagsOf(r) == {r.snaps[i].tag : i \in 1..Len(r.snaps)}

\* the error kinds of the specification, as the exceptions the code raises
TransportErrors == {"ConnectionError", "HTTPError"}
FormatErrors == {"TypeError", "IndexError", "JSONDecodeError"}
NotFoundError == "Exception: No snapshots found."

C4_NoSnapshotsIsNotFound ==
    (spc = "done" /\ Answered /\ Len(resp.snaps) = 0) =>
        /\ latest.kind = "raise"
        /\ latest.exc = NotFoundError
        /\ latest.exc \notin TransportErrors \cup FormatErrors
        /\ latest.value = <<>>

\* a response with an empty snapshot list was resolved
C4_Witness ==
    /\ spc = "done" /\ Answered /\ resp.snaps = <<>>
    /\ latest = Raise(NotFoundError)

(***************************************************************************)
(* list_s3_json_files (OpenerNeuro.py 55-76) and list_s3_niigz_files       *)
(* (151-186).  A page is a response of list_objects_v2: it may lack the    *)
(* 'Contents' field, which page.get('Contents', []) reads as no objects.   *)
(* The print calls of lines 72-74 and 182-184 change no state.             *)
(***************************************************************************)
DotJson == <<".", "j", "s", "o", "n">>
DotNiiGz == <<".", "n", "i", "i", ".", "g", "z">>
UrlBase == <<"h", "t", "t", "p", "s", ":", "/", "/", "s", "3", ".", "a", "m", "a", "z", "o", "n", "a", "w", "s", ".", "c", "o", "m", "/">>
Bucket == <<"o", "p", "e", "n", "n", "e", "u", "r", "o", ".", "o", "r", "g">>
Slash == <<"/">>

\* lines 69, 179: f"https://s3.amazonaws.com/{bucket}/{key}"
UrlOf(key) == Concat(Concat(Concat(UrlBase, Bucket), Slash), key)

\* an insertion-ordered dict d after d[key] = val: a key already present keeps
\* its place and takes the new value
RECURSIVE OrderedSet(_, _, _)
OrderedSet(d, key, val) ==
    IF Len(d) = 0 THEN <<Item(key, val)>>
    ELSE IF d[1].k = key THEN <<Item(key, val)>> \o Tail(d)
    ELSE <<d[1]>> \o OrderedSet(Tail(d), key, val)

\* page.get('Contents', [])
ContentsOf(page) == IF page.has_contents THEN page.Contents ELSE <<>>

\* lines 66-70 (176-180): the inner loop over the objects of one page from j on
RECURSIVE ListObjects(_, _, _, _)
ListObjects(objs, j, suffix, files) ==
    IF j > Len(objs) THEN files
    ELSE LET key == objs[j].Key
         IN ListObjects(objs, j + 1, suffix,
                        IF endswith(key, suffix) THEN OrderedSet(files, key, UrlOf(key))
                        ELSE files)

\* lines 65-70 (175-180): the loop over the pages from i on
RECURSIVE ListPages(_, _, _, _)
ListPages(ps, i, suffix, files) ==
    IF i > Len(ps) THEN files
    ELSE ListPages(ps, i + 1, suffix, ListObjects(ContentsOf(ps[i]), 1, suffix, files))

list_s3_json_files(ps) == ListPages(ps, 1, DotJson, <<>>)

list_s3_niigz_files(ps) == ListPages(ps, 1, DotNiiGz, <<>>)

\* the keys the object store may hold
KeyAJson == <<"a", ".", "j", "s", "o", "n">>
KeyBJson == <<"b", ".", "j", "s", "o", "n">>
KeyAJsonBak == <<"a", ".", "j", "s", "o", "n", ".", "b", "a", "k">>
KeyANiiGz == <<"a", ".", "n", "i", "i", ".", "g", "z">>
KeyJson == <<"j", "s", "o", "n">>
KeyPool == {KeyAJson, KeyBJson, KeyAJsonBak, KeyANiiGz, KeyJson}

\* page i of the objects `keys` cut after c[1] <= ... <= c[p] = Len(keys)
PageOf(keys, c, i, has) ==
    LET from == IF i = 1 THEN 0 ELSE c[i - 1]
    IN [has_contents |-> has,
        Contents |-> [j \in 1..(c[i] - from) |-> [Key |-> keys[from + j]]]]

Cuts(n, p) == {c \in [1..p -> 0..n] : /\ \A i \in 1..(p - 1) : c[i] <= c[i + 1]
                                      /\ p > 0 => c[p] = n}

\* ps is a listing of at most maxObjs objects with keys of pool, in at most
\* maxPages pages; a page without objects may lack its Contents field
IsListing(ps, pool, maxObjs, maxPages) ==
    \E keys \in SeqsUpTo(pool, maxObjs) :
      \E p \in (IF Len(keys) = 0 THEN 0 ELSE 1)..maxPages :
        \E c \in Cuts(Len(keys), p) :
          \E has \in [1..p -> BOOLEAN] :
             /\ \A i \in 1..p : ~has[i] => c[i] = (IF i = 1 THEN 0 ELSE c[i - 1])
             /\ ps = [i \in 1..p |-> PageOf(keys, c, i, has[i])]

ListingInit ==
    /\ IsListing(pages, KeyPool, MaxObjs, MaxPages)
    /\ listed = <<>>
    /\ lpc = "call"
    /\ y = Scalar(0) /\ out = EmptyDict /\ fpc = "idle"
    /\ resp = <<>> /\ latest = <<>> /\ spc = "idle"
    /\ json_urls = <<>> /\ pos = 0 /\ records = <<>> /\ fetched = <<>>
    /\ df = <<>> /\ apc = "idle"
    /\ age = <<>> /\ parsed = <<>> /\ gpc = "idle"

ListJsonCall ==
    /\ lpc = "call"
    /\ listed' = list_s3_json_files(pages)
    /\ lpc' = "json_done"
    /\ UNCHANGED <<pages, flattenVars, snapshotVars, aggregateVars, ageVars>>

ListNiigzCall ==
    /\ lpc = "call"
    /\ listed' = list_s3_niigz_files(pages)
    /\ lpc' = "niigz_done"
    /\ UNCHANGED <<pages, flattenVars, snapshotVars, aggregateVars, ageVars>>

ListingNext == ListJsonCall \/ ListNiigzCall

SpecListing == ListingInit /\ [][ListingNext]_vars

\* the keys of all objects of all pages
KeysOn(ps) == UNION {{ContentsOf(ps[i])[j].Key : j \in 1..Len(ContentsOf(ps[i]))} : i \in 1..Len(ps)}

\* k = prefix + suffix for some prefix
IsPrefixPlus(k, suffix) == \E n \in 0..Len(k) : k = SubSeq(k, 1, n) \o suffix

\* what the listing is specified to be for a suffix: one entry per key with
\* that suffix, mapped to its public URL
IsListingFor(d, ps, suffix) ==
    /\ {d[i].k : i \in 1..Len(d)} = {k \in KeysOn(ps) : IsPrefixPlus(k, suffix)}
    /\ \A i, j \in 1..Len(d) : i # j => d[i].k # d[j].k
    /\ \A i \in 1..Len(d) : d[i].val = UrlBase \o Bucket \o <<"/">> \o d[i].k

\* C5: for every sequence of pages the returned mapping holds exactly the keys
\* ending in the target suffix, each once and mapped to its URL; a key ending
\* in '.json.bak' is not listed for '.json'.
C5_ListingIsSuffixFilter ==
    /\ lpc = "json_done" =>
          /\ IsListingFor(listed, pages, <<".", "j", "s", "o", "n">>)
          /\ \A i \in 1..Len(listed) : listed[i].k # KeyAJsonBak
    /\ lpc = "niigz_done" =>
          IsListingFor(listed, pages, <<".", "n", "i", "i", ".", "g", "z">>)

\* a listing of two pages, the second short, with a repeated '.json' key and a
\* '.json.bak' key, was filtered for '.json'
C5_Witness ==
    /\ lpc = "json_done"
    /\ Len(pages) = 2
    /\ Len(ContentsOf(pages[1])) = 2 /\ Len(ContentsOf(pages[2])) = 1
    /\ KeysOn(pages) = {KeyAJson, KeyAJsonBak}
    /\ listed = <<Item(KeyAJson, UrlOf(KeyAJson))>>

(***************************************************************************)
(* jsons_to_dataframe (OpenerNeuro.py 112-148).  The dataset identifier    *)
(* read from the URL (127-129) only names the prefix that is listed; the   *)
(* objects under it are `pages`.  The loop of lines 140-145 takes one step *)
(* per file, with the answer of the object store chosen at each request.   *)
(***************************************************************************)
FileCol == <<"_", "_", "f", "i", "l", "e", "_", "_">>

\* the documents the object store may serve: {"a": {"b": "x"}},
\* {"__file__": "x", "a": ["x"]} and {}
X == <<"x">>
DocNested == Dict1(<<"a">>, Dict1(<<"b">>, Scalar(X)))
DocWithFileKey == Dict2(FileCol, Scalar(X), <<"a">>, List(<<Item(<<>>, Scalar(X))>>))
DocEmpty == Dict(<<>>)
Malformed == [t |-> "malformed", v |-> 0, items |-> <<>>]
Bodies == {DocNested, DocWithFileKey, DocEmpty, Malformed}

\* the answers to requests.get(url): no answer (the request fails), or a status
\* and a body
ConnError == [conn |-> "error", status |-> 0, body |-> Malformed]
GetResponses == {ConnError} \cup [conn : {"ok"}, status : {200, 404, 503}, body : Bodies]

\* lines 141-145 for the file fname and the answer r: the record appended to
\* `records`, or the exception raised
DownloadOne(fname, r) ==
    IF r.conn = "error" THEN Raise("ConnectionError")
    ELSE IF raise_for_status(r.status) THEN Raise("HTTPError")
    ELSE IF r.body.t = "malformed" THEN Raise("JSONDecodeError")
    ELSE Return(DictSet(flatten_json(r.body), FileCol, fname))

\* line 147: pd.DataFrame(records).set_index("__file__").  The frame has one
\* row per record and the union of their keys as columns; set_index raises
\* KeyError when the frame has no such column, which is so exactly when
\* there are no records, and makes that column the index otherwise.
DataFrameSetIndex(recs, col) ==
    LET columns == UNION {DOMAIN recs[i] : i \in 1..Len(recs)}
    IN IF col \notin columns THEN Raise("KeyError")
       ELSE Return([index |-> [i \in 1..Len(recs) |-> recs[i][col]],
                    columns |-> columns \ {col},
                    rows |-> [i \in 1..Len(recs) |->
                                 [k \in DOMAIN recs[i] \ {col} |-> recs[i][k]]]])

AggKeyPool == {KeyAJson, KeyBJson, KeyANiiGz}

AggregateInit ==
    /\ IsListing(pages, AggKeyPool, MaxFiles, MaxPages)
    /\ json_urls = <<>> /\ pos = 0 /\ records = <<>> /\ fetched = <<>>
    /\ df = NoResult
    /\ apc = "call"
    /\ listed = <<>> /\ lpc = "idle"
    /\ y = Scalar(0) /\ out = EmptyDict /\ fpc = "idle"
    /\ resp = <<>> /\ latest = <<>> /\ spc = "idle"
    /\ age = <<>> /\ parsed = <<>> /\ gpc = "idle"

\* lines 135-139
AggList ==
    /\ apc = "call"
    /\ json_urls' = list_s3_json_files(pages)
    /\ records' = <<>>
    /\ pos' = 0
    /\ apc' = "loop"
    /\ UNCHANGED <<fetched, df, pages, listed, lpc, flattenVars, snapshotVars, ageVars>>

\* lines 140-145: one pass of the loop body, for the file after the pos files
\* already done
AggDownload ==
    /\ apc = "loop"
    /\ pos < Len(json_urls)
    /\ \E r \in GetResponses :
         LET fname == json_urls[pos + 1].k
             url == json_urls[pos + 1].val
             got == DownloadOne(fname, r)
         IN /\ fetched' = Append(fetched, [url |-> url, conn |-> r.conn, status |-> r.status])
            /\ IF got.kind = "raise"
               THEN /\ df' = got
                    /\ apc' = "failed"
                    /\ UNCHANGED <<records, pos>>
               ELSE /\ records' = Append(records, got.value)
                    /\ pos' = pos + 1
                    /\ UNCHANGED <<df, apc>>
    /\ UNCHANGED <<json_urls, pages, listed, lpc, flattenVars, snapshotVars, ageVars>>

\* lines 147-148, once the loop has run out of files
AggFinish ==
    /\ apc = "loop"
    /\ pos = Len(json_urls)
    /\ df' = DataFrameSetIndex(records, FileCol)
    /\ apc' = "done"
    /\ UNCHANGED <<json_urls, pos, records, fetched, pages, listed, lpc,
                   flattenVars, snapshotVars, ageVars>>

AggNext == AggList \/ AggDownload \/ AggFinish

SpecAggregate == AggregateInit /\ [][AggNext]_vars

\* the request logged at place i of `fetched` failed: no answer, or a 4xx/5xx one
FailedAt(i) == fetched[i].conn = "error" \/ (400 <= fetched[i].status /\ fetched[i].status <= 599)

\* C6 as stated: when every download has succeeded, jsons_to_dataframe returns
\* a table with one row per listed '.json' file whose i-th index value is the
\* i-th file key of the listing.
C6_OneRowPerFileIndexedByKey ==
    apc = "done" =>
        /\ df.kind = "return"
        /\ Len(df.value.rows) = Len(json_urls)
        /\ Len(df.value.index) = Len(json_urls)
        /\ \A i \in 1..Len(json_urls) : df.value.index[i] = json_urls[i].k

\* C7: a failed download ends the aggregation with a transport error and no
\* table; the failed request is the last one made, no request is made twice,
\* and nothing runs after it.
C7_DownloadFailureAborts ==
    \A i \in 1..Len(fetched) : FailedAt(i) =>
        /\ apc = "failed"
        /\ df.kind = "raise" /\ df.exc \in TransportErrors /\ df.value = <<>>
        /\ i = Len(fetched)
        /\ \A j \in 1..(i - 1) : fetched[j].url # fetched[i].url
        /\ i = pos + 1 /\ Len(records) = pos
        /\ ~ENABLED AggNext

\* the second of two files failed to download after the first was read
C7_Witness ==
    /\ Len(json_urls) = 2
    /\ Len(fetched) = 2
    /\ ~FailedAt(1) /\ FailedAt(2)
    /\ Len(records) = 1
    /\ apc = "failed"

(***************************************************************************)
(* parse_age (plotting_helper.py 6-38).  A float is a fraction n/d in       *)
(* lowest terms (binary rounding is not modelled), an infinity or the      *)
(* not-a-number value.  The en dash and the em dash are the characters     *)
(* "EN" and "EM".                                                          *)
(***************************************************************************)
RECURSIVE Pow10(_)
Pow10(n) == IF n = 0 THEN 1 ELSE 10 * Pow10(n - 1)

RECURSIVE Gcd(_, _)
Gcd(a, b) == IF b = 0 THEN a ELSE Gcd(b, a % b)

Abs(n) == IF n < 0 THEN -n ELSE n

\* the float n/d
Num(n, d) ==
    LET g == Gcd(Abs(n), d)
    IN [kind |-> "num", n |-> n \div g, d |-> d \div g, exc |-> ""]
Inf(sign) == [kind |-> "inf", n |-> sign, d |-> 0, exc |-> ""]
NaN == [kind |-> "nan", n |-> 0, d |-> 0, exc |-> ""]
RaiseF(e) == [kind |-> "raise", n |-> 0, d |-> 0, exc |-> e]

\* -f
Neg(f) == [f EXCEPT !.n = -f.n]

\* line 30: (low + high) / 2
Mean(lo, hi) == Num(lo.n * hi.d + hi.n * lo.d, 2 * lo.d * hi.d)

EnDash == "EN"
EmDash == "EM"
Hyphen == <<"-">>
SpaceToSpace == <<" ", "t", "o", " ">>

\* s.strip()
RECURSIVE LStrip(_), RStrip(_)
LStrip(s) == IF Len(s) > 0 /\ s[1] = " " THEN LStrip(Tail(s)) ELSE s
RStrip(s) == IF Len(s) > 0 /\ s[Len(s)] = " " THEN RStrip(DropLast(s)) ELSE s
Strip(s) == RStrip(LStrip(s))

\* s.replace(old, new): the occurrences of old from the left, not overlapping
RECURSIVE Replace(_, _, _)
Replace(s, old, new) ==
    IF Len(s) < Len(old) THEN s
    ELSE IF SubSeq(s, 1, Len(old)) = old
         THEN new \o Replace(SubSeq(s, Len(old) + 1, Len(s)), old, new)
         ELSE <<s[1]>> \o Replace(Tail(s), old, new)

\* line 25
Normalize(s) ==
    Replace(Replace(Replace(Strip(s), <<EnDash>>, Hyphen), <<EmDash>>, Hyphen),
            SpaceToSpace, Hyphen)

\* the last place of the run of digits of s that starts at place i (i - 1 when
\* s has no digit at i)
RECURSIVE DigitsEnd(_, _)
DigitsEnd(s, i) == IF i <= Len(s) /\ IsDigit(s[i]) THEN DigitsEnd(s, i + 1) ELSE i - 1

\* a variant matching \d+ only
MatchEnd_noFraction(s, i) == DigitsEnd(s, i)

\* where a match of \d+\.?\d* that starts at the digit at place i ends:
\* the digits, a dot if one follows, the digits after it
MatchEnd(s, i) ==
    LET d == DigitsEnd(s, i)
    IN IF d + 1 <= Len(s) /\ s[d + 1] = "." THEN DigitsEnd(s, d + 2) ELSE d

\* line 27: re.findall(r'\d+\.?\d*', s) from place i on
RECURSIVE findall(_, _)
findall(s, i) ==
    IF i > Len(s) THEN <<>>
    ELSE IF IsDigit(s[i])
         THEN LET e == MatchEnd(s, i) IN <<SubSeq(s, i, e)>> \o findall(s, e + 1)
         ELSE findall(s, i + 1)

\* the value of a run of digits read as a whole number
RECURSIVE DigitsValue(_)
DigitsValue(w) ==
    IF Len(w) = 0 THEN 0 ELSE 10 * DigitsValue(DropLast(w)) + DigitValue(w[Len(w)])

\* float(w) for a decimal w = digits [. digits]
DecimalToFloat(w) ==
    LET d == DigitsEnd(w, 1)
        frac == IF d + 1 < Len(w) THEN SubSeq(w, d + 2, Len(w)) ELSE <<>>
    IN Num(DigitsValue(SubSeq(w, 1, d)) * Pow10(Len(frac)) + DigitsValue(frac),
           Pow10(Len(frac)))

IsDigits(w) == \A i \in 1..Len(w) : IsDigit(w[i])

\* float(s) for a string: blanks around it and a sign are allowed, then inf,
\* infinity, nan or a decimal (digits with an optional fraction, or a dot and
\* digits); anything else is a ValueError
StrToFloat(s) ==
    LET t == Strip(s)
        neg == Len(t) > 0 /\ t[1] = "-"
        b == IF Len(t) > 0 /\ t[1] \in {"-", "+"} THEN Tail(t) ELSE t
        d == DigitsEnd(b, 1)
    IN IF b \in {<<"i", "n", "f">>, <<"i", "n", "f", "i", "n", "i", "t", "y">>}
          THEN Inf(IF neg THEN -1 ELSE 1)
       ELSE IF b = <<"n", "a", "n">> THEN NaN
       ELSE IF d >= 1 /\ (d = Len(b) \/ (b[d + 1] = "." /\ IsDigits(SubSeq(b, d + 2, Len(b)))))
          THEN (IF neg THEN Neg(DecimalToFloat(b)) ELSE DecimalToFloat(b))
       ELSE IF Len(b) >= 2 /\ b[1] = "." /\ IsDigits(Tail(b))
          THEN (IF neg THEN Neg(DecimalToFloat(<<"0">> \o b))
                ELSE DecimalToFloat(<<"0">> \o b))
       ELSE RaiseF("ValueError")

\* float(age): a string is parsed, an int is converted unless it is beyond the
\* range of a float, None and a list are a TypeError
PyFloat(a) ==
    CASE a.type = "str" -> StrToFloat(a.s)
      [] a.type = "int" -> Num(a.n, 1)
      [] a.type = "bigint" -> RaiseF("OverflowError")
      [] a.type \in {"NoneType", "list"} -> RaiseF("TypeError")

\* a variant of lines 35-38 without the try
Fallback_noTry(a) == PyFloat(a)

\* lines 35-38
Fallback(a) == LET f == PyFloat(a) IN IF f.kind = "raise" THEN NaN ELSE f

\* lines 23-38
parse_age(a) ==
    IF a.type = "str"
    THEN LET s == Normalize(a.s)
             nums == findall(s, 1)
         IN IF Len(nums) >= 2
            THEN Mean(DecimalToFloat(nums[1]), DecimalToFloat(nums[2]))
            ELSE IF Len(nums) = 1 THEN DecimalToFloat(nums[1])
            ELSE Fallback(a)
    ELSE Fallback(a)

StrAge(s) == [type |-> "str", s |-> s, n |-> 0]
IntAge(n) == [type |-> "int", s |-> <<>>, n |-> n]
OtherAge(t) == [type |-> t, s |-> <<>>, n |-> 0]

\* the ages of the examples
Age25 == <<"2", "5">>
Age20_30 == <<"2", "0", "-", "3", "0">>
Age18to25 == <<"1", "8", " ", "t", "o", " ", "2", "5">>
Age20en30 == <<"2", "0", EnDash, "3", "0">>
Age20em30 == <<"2", "0", EmDash, "3", "0">>
AgeAbc == <<"a", "b", "c">>
AgeInf == <<"i", "n", "f">>
AgeNan == <<"n", "a", "n">>
ExampleAges == {Age25, Age20_30, Age18to25, Age20en30, Age20em30, AgeAbc, AgeInf, AgeNan}

AgeChars == {"1", "2", ".", "-", " ", EnDash}

\* a is a value given to parse_age
IsAgeInput(a) ==
    \/ \E n \in 0..MaxLen : \E s \in [1..n -> AgeChars] : a = StrAge(s)
    \/ \E s \in ExampleAges : a = StrAge(s)
    \/ \E n \in {0, 30} : a = IntAge(n)
    \/ \E t \in {"bigint", "NoneType", "list"} : a = OtherAge(t)

AgeInit ==
    /\ IsAgeInput(age)
    /\ parsed = NaN
    /\ gpc = "call"
    /\ y = Scalar(0) /\ out = EmptyDict /\ fpc = "idle"
    /\ resp = <<>> /\ latest = <<>> /\ spc = "idle"
    /\ pages = <<>> /\ listed = <<>> /\ lpc = "idle"
    /\ json_urls = <<>> /\ pos = 0 /\ records = <<>> /\ fetched = <<>>
    /\ df = <<>> /\ apc = "idle"

AgeCall ==
    /\ gpc = "call"
    /\ parsed' = parse_age(age)
    /\ gpc' = "done"
    /\ UNCHANGED <<age, flattenVars, snapshotVars, listingVars, aggregateVars>>

SpecAge == AgeInit /\ [][AgeCall]_vars

\* w is one or more digits, then at most one dot, then digits
IsDecimal(w) ==
    \E d \in 1..Len(w) :
        /\ \A i \in 1..d : IsDigit(w[i])
        /\ \/ d = Len(w)
           \/ w[d + 1] = "." /\ \A i \in (d + 2)..Len(w) : IsDigit(w[i])

\* the decimal-number substrings of s from place i on: at the first place
\* where one starts, the longest one, then those after it
RECURSIVE DecimalsIn(_, _)
DecimalsIn(s, i) ==
    IF i > Len(s) THEN <<>>
    ELSE LET ends == {j \in i..Len(s) : IsDecimal(SubSeq(s, i, j))}
         IN IF ends = {} THEN DecimalsIn(s, i + 1)
            ELSE <<SubSeq(s, i, Max(ends))>> \o DecimalsIn(s, Max(ends) + 1)

\* the number a decimal w denotes: its digits read as a whole number, over ten
\* to the number of digits after the dot
DecimalValue(w) ==
    LET dot == {i \in 1..Len(w) : w[i] = "."}
        digs == SelectSeq(w, IsDigit)
    IN Num(DigitsValue(digs), IF dot = {} THEN 1 ELSE Pow10(Len(w) - Max(dot)))

\* C8: parse_age returns for every input, and what it returns is a float (a
\* number or not-a-number), never a raised error.
C8_ParseAgeNeverRaises ==
    gpc = "done" => parsed.kind \in {"num", "inf", "nan"}

\* None, a list or an int beyond the float range was parsed
C8_Witness ==
    /\ gpc = "done"
    /\ age.type \in {"NoneType", "list", "bigint"}
    /\ parsed = NaN

====
